---- MODULE Spec2Model ----
(***************************************************************************)
(* Merkle Mountain Range (src/src/lib.rs): an append-only accumulator of   *)
(* digests kept as max_height levels, with root computation and inclusion  *)
(* proofs.                                                                 *)
(*                                                                         *)
(* Digests.  The hash primitives (Keccak-256, Blake3) are external and are *)
(* modelled as collision-free: a digest is named by the algorithm that     *)
(* produced it and the byte string it digests, <<tag>> \o data.  A digest  *)
(* read back as bytes (Hash::as_bytes) is one fixed-width block; since the *)
(* model's digests vary in length the block carries its length, so that a  *)
(* concatenation of two blocks decodes in one way only, as 32 + 32 bytes   *)
(* do.  Level `level` of the code is layers[level + 1] here and entry      *)
(* `index` of a level is element index + 1 (sequences start at 1).         *)
(***************************************************************************)
EXTENDS Integers, Sequences, FiniteSets

VARIABLES
    layers,      \* self.layers: Vec<Vec<Hash>>
    max_height,  \* self.max_height
    hash_type,   \* self.hash_type
    panicked,    \* TRUE once an operation has panicked (index out of bounds)
    crafted,     \* number of appends so far whose input was not the demo's next string
    held,        \* the proof a client took with generate_proof and still holds
    call,        \* the last verify_proof call: its arguments and its result
    supplied,    \* the digests handed to append_leaf so far, in call order
    answer       \* the last accessor call since the last append, and what it returned

vars == <<layers, max_height, hash_type, panicked, crafted, held, call, supplied, answer>>

----------------------------------------------------------------------------
(* Bounds of the model. *)

\* largest max_height an accumulator is constructed with
MaxHeight == 3

\* number of appends that may supply a repeated or a crafted input
MaxCrafted == 1

Heights == 0..MaxHeight

HashTypes == {"Keccak256", "Blake3"}

----------------------------------------------------------------------------
(* Helpers for Rust's integer and slice semantics. *)

Pow2(k) == 2 ^ k

\* i32 `%`: the remainder takes the sign of the dividend
RustRem(a, b) == IF a >= 0 THEN a % b ELSE -((-a) % b)

\* i32 `/`: the quotient truncates toward zero
RustDiv(a, b) == IF a >= 0 THEN a \div b ELSE -((-a) \div b)

I32Max == 2147483647

\* `x as i32` for a usize x: the low 32 bits, read as two's complement
AsI32(x) == IF x <= I32Max THEN x ELSE (x - I32Max) - I32Max - 2

\* Option<T>: None / Some(v); a panicking call yields Panic
None == [panic |-> FALSE, some |-> FALSE, val |-> <<>>]

Some(v) == [panic |-> FALSE, some |-> TRUE, val |-> v]

Panic == [panic |-> TRUE, some |-> FALSE, val |-> <<>>]

\* the object the methods take as &self
Self == [layers |-> layers, max_height |-> max_height, hash_type |-> hash_type]

----------------------------------------------------------------------------
(* HashEngine *)

HashTag(t) == IF t = "Keccak256" THEN -1 ELSE -2

compute_hash(self, data) == <<HashTag(self.hash_type)>> \o data

as_bytes(hash) == <<Len(hash)>> \o hash

\* the two halves of the buffer filled in the other order
hash_node_pair_swapped(self, left, right) ==
    compute_hash(self, as_bytes(right) \o as_bytes(left))

hash_node_pair(self, left, right) ==
    compute_hash(self, as_bytes(left) \o as_bytes(right))

----------------------------------------------------------------------------
(* Construction and append *)

\* an allocation one level short
new_one_short(mh, ht) ==
    [layers |-> [l \in 1..(mh - 1) |-> <<>>], max_height |-> mh, hash_type |-> ht]

new(mh, ht) ==
    [layers |-> [l \in 1..mh |-> <<>>], max_height |-> mh, hash_type |-> ht]

\* lib.rs:79: the level holds an even number of nodes, at least two
\* the parity test dropped
pair_complete_no_parity(size) == size >= 2

\* the size test off by one: a level of exactly two nodes not folded
pair_complete_more_than_two(size) == size > 2 /\ size % 2 = 0

pair_complete(size) == size >= 2 /\ size % 2 = 0

\* the first two nodes of the level folded instead of the last two
RECURSIVE build_peaks_first_pair(_, _, _)
build_peaks_first_pair(self, ls, level) ==
    IF level >= self.max_height
    THEN [layers |-> ls, panic |-> FALSE]
    ELSE LET current_level_size == Len(ls[level + 1])
         IN  IF pair_complete(current_level_size)
             THEN LET parent_hash == hash_node_pair(self, ls[level + 1][1], ls[level + 1][2])
                  IN  IF level + 1 >= Len(ls)
                      THEN [layers |-> ls, panic |-> TRUE]
                      ELSE build_peaks_first_pair(
                               self,
                               [ls EXCEPT ![level + 2] = Append(@, parent_hash)],
                               level + 1)
             ELSE [layers |-> ls, panic |-> FALSE]

\* lib.rs:75-93, the loop from `level` on; ls is self.layers as mutated so far.
\* The result is the layers reached and whether layers[level + 1] was out of
\* bounds (the pushes made before the panic stay).
RECURSIVE build_peaks_from(_, _, _)
build_peaks_from(self, ls, level) ==
    IF level >= self.max_height
    THEN [layers |-> ls, panic |-> FALSE]
    ELSE LET current_level_size == Len(ls[level + 1])
         IN  IF pair_complete(current_level_size)
             THEN LET left_child   == ls[level + 1][current_level_size - 1]
                      right_child  == ls[level + 1][current_level_size]
                      parent_hash  == hash_node_pair(self, left_child, right_child)
                  IN  IF level + 1 >= Len(ls)
                      THEN [layers |-> ls, panic |-> TRUE]
                      ELSE build_peaks_from(
                               self,
                               [ls EXCEPT ![level + 2] = Append(@, parent_hash)],
                               level + 1)
             ELSE [layers |-> ls, panic |-> FALSE]

\* a fold of level 0 only, without the cascade
build_peaks_one_level(self) ==
    LET size == Len(self.layers[1])
    IN  IF pair_complete(size) /\ Len(self.layers) > 1
        THEN [layers |-> [self.layers EXCEPT ![2] =
                              Append(@, hash_node_pair(self, self.layers[1][size - 1],
                                                       self.layers[1][size]))],
              panic |-> FALSE]
        ELSE [layers |-> self.layers, panic |-> FALSE]

build_peaks(self) == build_peaks_from(self, self.layers, 0)

\* the leaf inserted at the front of level 0
append_leaf_prepend(self, hash) ==
    IF Len(self.layers) = 0
    THEN [layers |-> self.layers, panic |-> TRUE]
    ELSE build_peaks([self EXCEPT !.layers[1] = <<hash>> \o @])

\* a leaf equal to the last one skipped
append_leaf_dedup(self, hash) ==
    IF Len(self.layers) = 0
    THEN [layers |-> self.layers, panic |-> TRUE]
    ELSE IF self.layers[1] # <<>> /\ self.layers[1][Len(self.layers[1])] = hash
    THEN [layers |-> self.layers, panic |-> FALSE]
    ELSE build_peaks([self EXCEPT !.layers[1] = Append(@, hash)])

\* self.layers[0].push(hash) panics when there is no level 0 (max_height = 0)
append_leaf(self, hash) ==
    IF Len(self.layers) = 0
    THEN [layers |-> self.layers, panic |-> TRUE]
    ELSE build_peaks([self EXCEPT !.layers[1] = Append(@, hash)])

append_data(self, data) == append_leaf(self, compute_hash(self, data))

----------------------------------------------------------------------------
(* Accessors *)

\* the number of significant bits: the `- 1` forgotten
RECURSIVE top_bit_count(_)
top_bit_count(n) == IF n <= 1 THEN 1 ELSE 1 + top_bit_count(n \div 2)

\* usize::BITS - n.leading_zeros() - 1 for n > 0: the position of the top set bit
RECURSIVE top_bit(_)
top_bit(n) == IF n <= 1 THEN 0 ELSE 1 + top_bit(n \div 2)

top_level(self) ==
    IF Len(self.layers) = 0 THEN Panic
    ELSE LET n == Len(self.layers[1])
         IN  IF n = 0 THEN None ELSE Some(top_bit(n))

\* lib.rs:109 and lib.rs:123: the guard lets level = max_height through
level_guard(self, level) == level > self.max_height

get_node(self, level, index) ==
    IF level_guard(self, level) THEN None
    ELSE IF level >= Len(self.layers) THEN Panic
    ELSE IF index < Len(self.layers[level + 1])
         THEN Some(self.layers[level + 1][index + 1])
         ELSE None

get_level(self, level) ==
    IF level_guard(self, level) THEN None
    ELSE IF level >= Len(self.layers) THEN Panic
    ELSE Some(self.layers[level + 1])

----------------------------------------------------------------------------
(* PeakSet and RootComputer *)

\* every non-empty level taken for a peak
is_nonempty(len) == len >= 1

\* lib.rs:136 and lib.rs:239: the level's last node is unpaired
is_odd(len) == len % 2 = 1

\* lib.rs:135-139, the loop from `level` on
RECURSIVE root_peaks_from(_, _)
root_peaks_from(self, level) ==
    IF level >= self.max_height THEN <<>>
    ELSE LET layer == self.layers[level + 1]
         IN  (IF is_odd(Len(layer)) THEN <<layer[Len(layer)]>> ELSE <<>>)
                 \o root_peaks_from(self, level + 1)

\* a fold that bags the peaks from the highest level down
RECURSIVE root_fold_high_first(_, _, _, _)
root_fold_high_first(self, root, peak, i) ==
    IF i >= Len(peak) THEN root
    ELSE hash_node_pair(self, root_fold_high_first(self, peak[i + 1], peak, i + 1), root)

\* lib.rs:147-149, the loop from i on
RECURSIVE root_fold_from(_, _, _, _)
root_fold_from(self, root, peak, i) ==
    IF i >= Len(peak) THEN root
    ELSE root_fold_from(self, hash_node_pair(self, root, peak[i + 1]), peak, i + 1)

compute_root(self) ==
    IF Len(self.layers) = 0 THEN Panic
    ELSE IF self.layers[1] # <<>>
         THEN LET peak == root_peaks_from(self, 0)
              IN  IF peak = <<>> THEN Panic
                  ELSE Some(root_fold_from(self, peak[1], peak, 1))
         ELSE None

\* the loop stopping one level short of the top
RECURSIVE get_peaks_below_top(_, _)
get_peaks_below_top(self, level) ==
    IF level >= self.max_height - 1 THEN <<>>
    ELSE LET layer == self.layers[level + 1]
         IN  (IF is_odd(Len(layer)) THEN <<layer[Len(layer)]>> ELSE <<>>)
                 \o get_peaks_below_top(self, level + 1)

\* lib.rs:238-242, the loop from `level` on
RECURSIVE get_peaks_from(_, _)
get_peaks_from(self, level) ==
    IF level >= self.max_height THEN <<>>
    ELSE LET layer == self.layers[level + 1]
         IN  (IF is_odd(Len(layer)) THEN <<layer[Len(layer)]>> ELSE <<>>)
                 \o get_peaks_from(self, level + 1)

get_peaks(self) ==
    IF Len(self.layers) = 0 THEN Panic
    ELSE IF self.layers[1] # <<>>
         THEN Some(get_peaks_from(self, 0))
         ELSE None

----------------------------------------------------------------------------
(* ProofGenerator *)

\* the parity test dropped: any last node taken for a peak
at_peak_last_only(current_index, len) == current_index = len - 1

\* lib.rs:168: the node is the unpaired last node of its level
at_peak(current_index, len) == current_index = len - 1 /\ current_index % 2 = 0

\* lib.rs:172-176
\* the sibling always taken on the right
sibling_index_right(current_index) == current_index + 1

sibling_index(current_index) ==
    IF current_index % 2 = 0 THEN current_index + 1 ELSE current_index - 1

\* the index carried to the next level without halving
RECURSIVE generate_proof_from_no_halving(_, _, _, _)
generate_proof_from_no_halving(self, proof, current_index, level) ==
    IF level >= self.max_height THEN Some(proof)
    ELSE LET layer == self.layers[level + 1]
         IN  IF Len(layer) = 0 THEN Panic
             ELSE IF at_peak(current_index, Len(layer)) THEN Some(proof)
             ELSE LET sibling == sibling_index(current_index)
                  IN  IF sibling >= Len(layer) THEN Panic
                      ELSE generate_proof_from_no_halving(
                               self,
                               Append(proof, layer[sibling + 1]),
                               current_index,
                               level + 1)

\* lib.rs:166-180, the loop from `level` on.  `len() - 1` on an empty level
\* overflows (a panic in a debug build; in a release build the index that
\* follows is out of bounds), and so does a sibling index past the level.
RECURSIVE generate_proof_from(_, _, _, _)
generate_proof_from(self, proof, current_index, level) ==
    IF level >= self.max_height THEN Some(proof)
    ELSE LET layer == self.layers[level + 1]
         IN  IF Len(layer) = 0 THEN Panic
             ELSE IF at_peak(current_index, Len(layer)) THEN Some(proof)
             ELSE LET sibling == sibling_index(current_index)
                  IN  IF sibling >= Len(layer) THEN Panic
                      ELSE generate_proof_from(
                               self,
                               Append(proof, layer[sibling + 1]),
                               current_index \div 2,
                               level + 1)

\* the range check off by one
generate_proof_inclusive_bound(self, leaf_index) ==
    IF Len(self.layers) = 0 THEN Panic
    ELSE IF leaf_index > Len(self.layers[1]) THEN None
    ELSE generate_proof_from(self, <<>>, leaf_index, 0)

generate_proof(self, leaf_index) ==
    IF Len(self.layers) = 0 THEN Panic
    ELSE IF leaf_index >= Len(self.layers[1]) THEN None
    ELSE generate_proof_from(self, <<>>, leaf_index, 0)

----------------------------------------------------------------------------
(* ProofVerifier *)

\* lib.rs:199-203: the pair handed to hash_node_pair
\* the pair always ordered (current, sibling)
ordered_pair_ignoring_index(current_index, current_hash, sibling_hash) ==
    <<current_hash, sibling_hash>>

ordered_pair(current_index, current_hash, sibling_hash) ==
    IF RustRem(current_index, 2) = 0
    THEN <<current_hash, sibling_hash>>
    ELSE <<sibling_hash, current_hash>>

\* lib.rs:197-208, the loop from proof entry k on; the hash walked to
RECURSIVE walk_from(_, _, _, _, _)
walk_from(self, current_hash, current_index, proof, k) ==
    IF k >= Len(proof) THEN current_hash
    ELSE LET pair == ordered_pair(current_index, current_hash, proof[k + 1])
         IN  walk_from(self,
                       hash_node_pair(self, pair[1], pair[2]),
                       RustDiv(current_index, 2),
                       proof,
                       k + 1)

\* lib.rs:209-211, the loop from i on
RECURSIVE verify_fold_from(_, _, _, _)
verify_fold_from(self, current_root, peaks, i) ==
    IF i >= Len(peaks) THEN current_root
    ELSE verify_fold_from(self, hash_node_pair(self, current_root, peaks[i + 1]), peaks, i + 1)

\* peaks.contains(&current_hash)
contains(peaks, hash) == \E k \in 1..Len(peaks) : peaks[k] = hash

\* lib.rs:213 with the membership test dropped
accept_root_only(peaks, current_hash, root, current_root) == root = current_root

accept(peaks, current_hash, root, current_root) ==
    contains(peaks, current_hash) /\ root = current_root

\* an empty peaks slice answered with false
verify_proof_empty_is_false(self, root, peaks, proof, leaf, leaf_index) ==
    IF Len(peaks) = 0 THEN [panic |-> FALSE, ret |-> FALSE]
    ELSE LET current_hash == walk_from(self, leaf, leaf_index, proof, 0)
             current_root == verify_fold_from(self, peaks[1], peaks, 1)
         IN  [panic |-> FALSE, ret |-> accept(peaks, current_hash, root, current_root)]

\* a verifier that also looks the leaf up in level 0
verify_proof_leaf_must_be_stored(self, root, peaks, proof, leaf, leaf_index) ==
    IF Len(peaks) = 0 THEN [panic |-> TRUE, ret |-> FALSE]
    ELSE LET current_hash == walk_from(self, leaf, leaf_index, proof, 0)
             current_root == verify_fold_from(self, peaks[1], peaks, 1)
         IN  [panic |-> FALSE,
              ret |-> /\ accept(peaks, current_hash, root, current_root)
                      /\ Len(self.layers) >= 1
                      /\ contains(self.layers[1], leaf)]

\* the result: panic (peaks[0] on an empty slice) or the boolean returned
verify_proof(self, root, peaks, proof, leaf, leaf_index) ==
    IF Len(peaks) = 0 THEN [panic |-> TRUE, ret |-> FALSE]
    ELSE LET current_hash == walk_from(self, leaf, leaf_index, proof, 0)
             current_root == verify_fold_from(self, peaks[1], peaks, 1)
         IN  [panic |-> FALSE, ret |-> accept(peaks, current_hash, root, current_root)]

----------------------------------------------------------------------------
(* Inputs of the appends *)

Digit(d) == <<48 + d>>

\* i.to_string().as_bytes(): the decimal digits of i
RECURSIVE to_string(_)
to_string(i) == IF i < 10 THEN Digit(i) ELSE to_string(i \div 10) \o Digit(i % 10)

LeafCount == IF Len(layers) = 0 THEN 0 ELSE Len(layers[1])

\* main.rs:243-247 appends the strings "1", "2", ... in turn
NextDemoData == to_string(LeafCount + 1)

\* inputs a caller may supply instead: the first string again (a repeated
\* leaf) and the 64 bytes of the first two leaf digests (a leaf that equals
\* an inner node)
CraftedData ==
    { to_string(1),
      as_bytes(compute_hash(Self, to_string(1)))
          \o as_bytes(compute_hash(Self, to_string(2))) }

\* a digest handed to append_leaf directly
SuppliedDigests == { compute_hash(Self, <<>>) }

\* appends stop after the one that overflows the capacity
Capacity == Pow2(max_height) - 1

----------------------------------------------------------------------------
(* State machine *)

NoProof == [taken |-> FALSE, count |-> 0, index |-> 0, proof |-> <<>>, leaf |-> <<>>]

NoCall == [made |-> FALSE, of |-> 0, tamper |-> "none",
           root |-> <<>>, peaks |-> <<>>, proof |-> <<>>, leaf |-> <<>>,
           leaf_index |-> 0, panic |-> FALSE, ret |-> FALSE]

NoAnswer == [op |-> "none", level |-> 0, index |-> 0, ret |-> None]

Init ==
    /\ max_height \in Heights
    /\ hash_type \in HashTypes
    /\ layers = new(max_height, hash_type).layers
    /\ panicked = FALSE
    /\ crafted = 0
    /\ held = NoProof
    /\ call = NoCall
    /\ supplied = <<>>
    /\ answer = NoAnswer

\* an append of `hash`: the records of the last verify_proof call and of the
\* last accessor call are of the state before
Appended(r, c, hash) ==
    /\ layers' = r.layers
    /\ panicked' = r.panic
    /\ crafted' = c
    /\ call' = NoCall
    /\ supplied' = Append(supplied, hash)
    /\ answer' = NoAnswer
    /\ UNCHANGED <<max_height, hash_type, held>>

AppendDemoData ==
    /\ ~panicked
    /\ Appended(append_data(Self, NextDemoData), crafted,
                compute_hash(Self, NextDemoData))

AppendCraftedData ==
    /\ ~panicked
    /\ crafted < MaxCrafted
    /\ \E data \in CraftedData \ {NextDemoData} :
           Appended(append_data(Self, data), crafted + 1, compute_hash(Self, data))

AppendLeaf ==
    /\ ~panicked
    /\ crafted < MaxCrafted
    /\ \E hash \in SuppliedDigests :
           Appended(append_leaf(Self, hash), crafted + 1, hash)

Next ==
    \/ AppendDemoData
    \/ AppendCraftedData
    \/ AppendLeaf

Spec == Init /\ [][Next]_vars

\* main.rs:259-266: a client asks once for the proof of a leaf i and keeps it,
\* with the leaf, while the accumulator goes on growing
GenerateProof ==
    /\ ~panicked
    /\ ~held.taken
    /\ \E i \in 0..LeafCount :
           LET proof == generate_proof(Self, i)
               leaf  == get_node(Self, 0, i)
           IN  /\ panicked' = proof.panic
               /\ held' = IF proof.some
                          THEN [taken |-> TRUE, count |-> LeafCount, index |-> i,
                                proof |-> proof.val, leaf |-> leaf.val]
                          ELSE held
    /\ UNCHANGED <<layers, max_height, hash_type, crafted, call, supplied, answer>>

NextStale ==
    \/ AppendDemoData
    \/ AppendCraftedData
    \/ AppendLeaf
    \/ GenerateProof

SpecStale == Init /\ [][NextStale]_vars

\* every digest stored in some level, and one stored in none
KnownDigests ==
    UNION { { layers[l][k] : k \in 1..Len(layers[l]) } : l \in 1..max_height }
        \cup SuppliedDigests

\* leaf_index values handed to verify_proof: some negative, some past the leaves
IndexRange == (-4)..(LeafCount + 3)

Reverse(s) == [k \in 1..Len(s) |-> s[Len(s) + 1 - k]]

\* the arguments of main.rs:268 for leaf i, with at most one of them replaced,
\* or with no peaks and every other argument replaced, or made up by the caller
\* around a digest that was never appended
VerifyArgs(i) ==
    LET root  == compute_root(Self).val
        peaks == get_peaks(Self).val
        proof == generate_proof(Self, i).val
        leaf  == get_node(Self, 0, i).val
        honest == [made |-> TRUE, of |-> i, tamper |-> "none",
                   root |-> root, peaks |-> peaks, proof |-> proof, leaf |-> leaf,
                   leaf_index |-> AsI32(i), panic |-> FALSE, ret |-> FALSE]
    IN  {honest}
        \cup { [honest EXCEPT !.tamper = "leaf", !.leaf = d] :
                   d \in KnownDigests \ {leaf} }
        \cup { [honest EXCEPT !.tamper = "proof", !.proof[k] = d] :
                   k \in 1..Len(proof), d \in KnownDigests }
        \cup { [honest EXCEPT !.tamper = "leaf_index", !.leaf_index = j] :
                   j \in IndexRange \ {AsI32(i)} }
        \cup { [honest EXCEPT !.tamper = "root", !.root = d] :
                   d \in (SuppliedDigests \cup {leaf}) \ {root} }
        \cup { [honest EXCEPT !.tamper = "peaks", !.peaks = p] :
                   p \in {<<>>, Tail(peaks), Reverse(peaks), Append(peaks, leaf)} \ {peaks} }
        \cup { [honest EXCEPT !.tamper = "all", !.peaks = <<>>, !.root = d, !.leaf = d,
                                !.proof = <<d>>, !.leaf_index = j] :
                   d \in KnownDigests, j \in {-1, LeafCount} }
        \cup { [honest EXCEPT !.tamper = "forged", !.leaf = d, !.leaf_index = 0,
                                !.proof = <<>>, !.peaks = <<d>>, !.root = d] :
                   d \in SuppliedDigests }
        \cup { [honest EXCEPT !.tamper = "forged", !.leaf = d, !.leaf_index = 0,
                                !.proof = <<leaf>>,
                                !.peaks = <<leaf, hash_node_pair(Self, d, leaf)>>,
                                !.root = hash_node_pair(Self, leaf,
                                                        hash_node_pair(Self, d, leaf))] :
                   d \in SuppliedDigests }

\* a verify_proof call, one recorded between two appends; it panics on an
\* empty peaks slice
VerifyProof ==
    /\ ~panicked
    /\ ~call.made
    /\ LeafCount >= 1
    /\ \E i \in 0..(LeafCount - 1) :
           \E a \in VerifyArgs(i) :
               /\ a.tamper = "proof" => a.proof # generate_proof(Self, i).val
               /\ LET r == verify_proof(Self, a.root, a.peaks, a.proof, a.leaf, a.leaf_index)
                  IN  /\ call' = [a EXCEPT !.panic = r.panic, !.ret = r.ret]
                      /\ panicked' = r.panic
    /\ UNCHANGED <<layers, max_height, hash_type, crafted, held, supplied, answer>>

NextVerify ==
    \/ AppendDemoData
    \/ VerifyProof

SpecVerify == Init /\ [][NextVerify]_vars

\* a call that drains the last leaf it has read
after_draining_read(self) ==
    IF Len(self.layers) = 0 \/ self.layers[1] = <<>> THEN self.layers
    ELSE [self.layers EXCEPT ![1] = SubSeq(@, 1, Len(@) - 1)]

\* the accessors, generate_proof and verify_proof take &self and assign to no
\* field: the levels after such a call
after_shared_borrow(self) == self.layers

\* an accessor call and what it returned; a call that panics ends the program
Answered(op, level, index, ret) ==
    /\ answer' = [op |-> op, level |-> level, index |-> index, ret |-> ret]
    /\ panicked' = ret.panic
    /\ layers' = after_shared_borrow(Self)
    /\ UNCHANGED <<max_height, hash_type, crafted, held, call, supplied>>

\* one call is recorded between two appends: what a call returns depends on
\* the levels alone, which a call leaves as they are
MayQuery == ~panicked /\ answer.op = "none"

\* level arguments: every level, the first two indices past them
QueryLevels == 0..(max_height + 1)

\* index arguments: the first entry, the last leaf, the first index past it
QueryIndexes == { i \in {0, LeafCount - 1, LeafCount} : i >= 0 }

QueryRoot == MayQuery /\ Answered("compute_root", 0, 0, compute_root(Self))

QueryPeaks == MayQuery /\ Answered("get_peaks", 0, 0, get_peaks(Self))

QueryTopLevel == MayQuery /\ Answered("top_level", 0, 0, top_level(Self))

QueryNode ==
    /\ MayQuery
    /\ \E level \in QueryLevels, index \in QueryIndexes :
           Answered("get_node", level, index, get_node(Self, level, index))

QueryLevel ==
    /\ MayQuery
    /\ \E level \in QueryLevels :
           Answered("get_level", level, 0, get_level(Self, level))

QueryProof ==
    /\ MayQuery
    /\ \E i \in 0..(LeafCount + 1) :
           Answered("generate_proof", 0, i, generate_proof(Self, i))

\* main.rs:259-268: the proof of leaf i checked at once
QueryVerify ==
    /\ MayQuery
    /\ LeafCount >= 1
    /\ \E i \in 0..(LeafCount - 1) :
           Answered("verify_proof", 0, i,
                    verify_proof(Self, compute_root(Self).val, get_peaks(Self).val,
                                 generate_proof(Self, i).val, get_node(Self, 0, i).val,
                                 AsI32(i)))

NextQuery ==
    \/ AppendDemoData
    \/ AppendCraftedData
    \/ AppendLeaf
    \/ QueryRoot
    \/ QueryPeaks
    \/ QueryTopLevel
    \/ QueryNode
    \/ QueryLevel
    \/ QueryProof
    \/ QueryVerify

SpecQuery == Init /\ [][NextQuery]_vars

----------------------------------------------------------------------------
(* Properties of the append-only state (specification Spec) *)

Level(level) == layers[level + 1]

LevelLen(level) == Len(layers[level + 1])

Levels == 0..(max_height - 1)

Bit(n, i) == (n \div Pow2(i)) % 2

\* a state reached by 1 to 2^max_height - 1 completed appends
WithinCapacity == ~panicked /\ LeafCount >= 1 /\ LeafCount <= Capacity

\* the left fold of a non-empty peak sequence: combine(fold of all but the last, last)
RECURSIVE LeftFold(_)
LeftFold(p) ==
    IF Len(p) = 1 THEN p[1]
    ELSE hash_node_pair(Self, LeftFold(SubSeq(p, 1, Len(p) - 1)), p[Len(p)])

RoundTrip(i) ==
    LET root  == compute_root(Self)
        peaks == get_peaks(Self)
        proof == generate_proof(Self, i)
        leaf  == get_node(Self, 0, i)
    IN  /\ root.some /\ peaks.some /\ proof.some /\ leaf.some
        /\ verify_proof(Self, root.val, peaks.val, proof.val, leaf.val, AsI32(i))
               = [panic |-> FALSE, ret |-> TRUE]

\* C1: proof round trip.  In every state reached by appending 1 to
\* 2^max_height - 1 leaves, for every leaf index i below the leaf count,
\* verify_proof(compute_root(), get_peaks(), generate_proof(i), get_node(0, i), i)
\* returns true.
C1_ProofRoundTrip ==
    WithinCapacity => \A i \in 0..(LeafCount - 1) : RoundTrip(i)

\* seven leaves in three levels: leaf 0 is proved by two siblings and verifies
C1_Witness ==
    /\ WithinCapacity /\ LeafCount = 7
    /\ Len(generate_proof(Self, 0).val) = 2
    /\ Len(generate_proof(Self, 6).val) = 0
    /\ RoundTrip(0) /\ RoundTrip(6)

\* C2: binary-counter invariant.  After every completed append (leaf count
\* n <= 2^max_height - 1), level i has odd length iff bit i of n is set, for
\* every level i in 0..max_height-1.
C2_BinaryCounter ==
    WithinCapacity =>
        \A i \in Levels : (LevelLen(i) % 2 = 1) <=> (Bit(LeafCount, i) = 1)

\* five leaves (binary 101): levels 0 and 2 are odd, level 1 is even
C2_Witness ==
    /\ WithinCapacity /\ LeafCount = 5 /\ max_height = 3
    /\ LevelLen(0) = 5 /\ LevelLen(1) = 2 /\ LevelLen(2) = 1

\* C3: level-size invariant.  After every completed append, for every level i
\* with i + 1 < max_height, len(level i+1) = floor(len(level i) / 2): no level
\* is left with an even-length tail whose last pair has not been folded.
C3_LevelSize ==
    WithinCapacity =>
        \A i \in Levels : i + 1 < max_height => LevelLen(i + 1) = LevelLen(i) \div 2

\* six leaves: three pairs folded to level 1, one pair of those to level 2
C3_Witness ==
    /\ WithinCapacity /\ LeafCount = 6 /\ max_height = 3
    /\ LevelLen(1) = 3 /\ LevelLen(2) = 1

\* C4: capacity, success side.  From a fresh accumulator with max_height >= 1,
\* each of the first 2^max_height - 1 appends completes: no append that brings
\* the leaf count to at most 2^max_height - 1 touches a level >= max_height.
C4_WithinCapacityNoPanic ==
    (max_height >= 1 /\ panicked) => LeafCount > Capacity

\* a full accumulator of height 3: seven appends have completed
C4_Witness ==
    max_height = 3 /\ LeafCount = Capacity /\ ~panicked /\ LevelLen(2) = 1

\* C5: capacity, failure side.  When the accumulator already holds
\* 2^max_height - 1 leaves, the next append reports the condition and leaves
\* every level exactly as it was before the call.
C5_FullAppendLeavesLevels ==
    [][(max_height >= 1 /\ ~panicked /\ LeafCount = Capacity) => layers' = layers]_vars

----------------------------------------------------------------------------
(* Properties of verify_proof (specification SpecVerify) *)

\* the parity of an index after k halvings
ParityAfter(index, k) == ((IF index >= 0 THEN index ELSE -index) \div Pow2(k)) % 2

\* the hash reached from `leaf` after the first k proof entries
RECURSIVE WalkedAfter(_, _, _, _)
WalkedAfter(leaf, index, proof, k) ==
    IF k = 0 THEN leaf
    ELSE LET below == WalkedAfter(leaf, index, proof, k - 1)
         IN  IF ParityAfter(index, k - 1) = 0
             THEN hash_node_pair(Self, below, proof[k])
             ELSE hash_node_pair(Self, proof[k], below)

Walked(c) == WalkedAfter(c.leaf, c.leaf_index, c.proof, Len(c.proof))

InPeaks(c) == \E k \in 1..Len(c.peaks) : c.peaks[k] = Walked(c)

\* C6: verify_proof, called with a non-empty peaks sequence, returns true iff
\* (1) the hash walked from leaf up through proof (pair ordered by the parity of
\* the current index, index halved each step) equals some element of peaks and
\* (2) the left-to-right fold of peaks seeded with peaks[0] equals root.
C6_VerifyIff ==
    (call.made /\ Len(call.peaks) > 0) =>
        /\ ~call.panic
        /\ call.ret <=> (InPeaks(call) /\ LeftFold(call.peaks) = call.root)

\* the walked hash is among the peaks handed in, but they fold to another root
C6_Witness ==
    /\ call.made /\ call.tamper = "peaks" /\ Len(call.peaks) >= 2
    /\ Len(call.proof) >= 1
    /\ InPeaks(call) /\ LeftFold(call.peaks) # call.root
    /\ ~call.ret

\* C7: tamper sensitivity (leaf and proof).  With more than one leaf, the
\* honest arguments with the leaf replaced by a different digest, or a single
\* proof entry replaced by a different digest, make verify_proof return false.
C7_LeafOrProofTamperRejected ==
    (call.made /\ LeafCount > 1 /\ call.tamper \in {"leaf", "proof"}) => ~call.ret

\* C8: tamper sensitivity (leaf_index).  With more than one leaf, the honest
\* arguments with leaf_index replaced by a different index make verify_proof
\* return false.
C8_IndexTamperRejected ==
    (call.made /\ LeafCount > 1 /\ call.tamper = "leaf_index" /\ call.leaf_index >= 0)
        => ~call.ret

----------------------------------------------------------------------------
(* Properties of a proof kept across appends (specification SpecStale) *)

RECURSIVE IsPowerOfTwo(_)
IsPowerOfTwo(n) == n = 1 \/ (n > 1 /\ n % 2 = 0 /\ IsPowerOfTwo(n \div 2))

\* the held proof checked against the accumulator as it is now
StaleVerify ==
    verify_proof(Self, compute_root(Self).val, get_peaks(Self).val,
                 held.proof, held.leaf, AsI32(held.index))

\* a proof taken at n leaves is held while the accumulator has grown to m > n
Stale == held.taken /\ ~panicked /\ held.count < LeafCount

\* the peak that contained the leaf when the proof was taken is still a peak:
\* its level has the same odd length now as then
PeakSurvives ==
    LeafCount \div Pow2(Len(held.proof)) = held.count \div Pow2(Len(held.proof))

\* C9 as stated: a stale proof fails against the later root and peaks unless a
\* leaf count involved is a power of two (here already for leaves that are the
\* digests of distinct strings).
C9_StaleRejectedUnlessPowerOfTwo ==
    (Stale /\ crafted = 0 /\ ~IsPowerOfTwo(held.count) /\ ~IsPowerOfTwo(LeafCount)) =>
        ~StaleVerify.ret

\* C9, amended: a stale proof is accepted whenever the peak that contained the
\* leaf at n leaves is still a peak at m leaves (floor(m / 2^h) = floor(n / 2^h)
\* for a proof of h entries), powers of two or not; when the leaves are the
\* digests of distinct strings it is rejected in every other case.
C9_StaleAcceptedIffPeakSurvives ==
    Stale =>
        /\ ~StaleVerify.panic
        /\ PeakSurvives => StaleVerify.ret
        /\ crafted = 0 => (StaleVerify.ret <=> PeakSurvives)

\* proof of leaf 0 taken at five leaves, checked at six: accepted; the same
\* proof is rejected once the eighth leaf has folded its peak away
C9_Witness ==
    /\ Stale /\ crafted = 0
    /\ held.count = 5 /\ held.index = 0 /\ LeafCount = 6
    /\ Len(held.proof) = 2
    /\ StaleVerify.ret

----------------------------------------------------------------------------
(* Properties of the peak set and the root (specification Spec) *)

\* the levels that hold an odd number of nodes
OddLevels == { l \in Levels : LevelLen(l) % 2 = 1 }

\* the k-th lowest of them
OddLevel(k) == CHOOSE l \in OddLevels : Cardinality({ x \in OddLevels : x < l }) = k - 1

\* the last entry of each odd level, lowest level first
LastOfOddLevels ==
    [k \in 1..Cardinality(OddLevels) |-> Level(OddLevel(k))[LevelLen(OddLevel(k))]]

\* combine(left, right) of the specification: the digest of left's bytes
\* followed by right's bytes
Combine(left, right) == compute_hash(Self, as_bytes(left) \o as_bytes(right))

\* C11: get_peaks() returns None exactly when level 0 is empty; otherwise it
\* returns, in increasing level order, the last entry of each level whose
\* length is odd, and nothing else.  (An accumulator with a level 0.)
C11_PeaksAreLastOfOddLevels ==
    max_height >= 1 =>
        /\ get_peaks(Self) = None <=> LevelLen(0) = 0
        /\ LevelLen(0) > 0 => get_peaks(Self) = Some(LastOfOddLevels)

\* five leaves: the peaks are the fifth leaf and the node of level 2; the even
\* level 1 between them gives none
C11_Witness ==
    /\ ~panicked /\ max_height = 3 /\ LeafCount = 5
    /\ get_peaks(Self) = Some(<<Level(0)[5], Level(2)[1]>>)

\* C12: single-peak case.  Whenever the leaf count is 2^k with k < max_height,
\* get_peaks() has exactly one entry, the only node of level k, and
\* compute_root() is that node; for one leaf the root is the leaf and for two
\* leaves it is combine(L0, L1).
C12_SinglePeak ==
    \A k \in Levels :
        (~panicked /\ LeafCount = Pow2(k)) =>
            /\ LevelLen(k) = 1
            /\ get_peaks(Self) = Some(<<Level(k)[1]>>)
            /\ compute_root(Self) = Some(Level(k)[1])
            /\ k = 0 => compute_root(Self) = Some(supplied[1])
            /\ k = 1 => compute_root(Self) = Some(Combine(supplied[1], supplied[2]))

\* four leaves: the one peak is the node of level 2, over both pairs
C12_Witness ==
    /\ ~panicked /\ LeafCount = 4 /\ LevelLen(2) = 1
    /\ compute_root(Self) =
           Some(Combine(Combine(supplied[1], supplied[2]),
                        Combine(supplied[3], supplied[4])))

----------------------------------------------------------------------------
(* Properties of the accessors (specifications Spec and SpecQuery) *)

\* C13: empty state.  On a freshly constructed accumulator, for every
\* max_height the constructor takes, compute_root(), get_peaks() and
\* generate_proof(i) return the absent value, without crashing.
C13_FreshQueriesAbsent ==
    (supplied = <<>> /\ answer.op \in {"compute_root", "get_peaks", "generate_proof"})
        => answer.ret = None

\* C14: out-of-range level.  For every level index >= max_height and every
\* index, get_node(level, index) and get_level(level) return the absent value
\* and never index out of bounds.
C14_LevelPastHeightAbsent ==
    (max_height >= 1 /\ answer.op \in {"get_node", "get_level"}
                     /\ answer.level >= max_height)
        => answer.ret = None

\* C15: generate_proof(leaf_index) returns the absent value iff leaf_index >=
\* the length of level 0; for every smaller index it returns a proof sequence.
C15_ProofAbsentIffOutOfRange ==
    (max_height >= 1 /\ ~panicked) =>
        \A i \in 0..(LeafCount + 2) :
            /\ generate_proof(Self, i) = None <=> i >= LeafCount
            /\ i < LeafCount => generate_proof(Self, i).some

\* three leaves: index 3 has no proof, the peak leaf 2 an empty one, leaf 0 one
\* of one sibling
C15_Witness ==
    /\ ~panicked /\ LeafCount = 3
    /\ generate_proof(Self, 3) = None
    /\ generate_proof(Self, 2) = Some(<<>>)
    /\ generate_proof(Self, 0) = Some(<<Level(0)[2]>>)

\* the accumulator reached by the appends alone, with no call between them
RECURSIVE Replay(_)
Replay(hashes) ==
    IF hashes = <<>> THEN new(max_height, hash_type)
    ELSE LET before == Replay(SubSeq(hashes, 1, Len(hashes) - 1))
         IN  [before EXCEPT !.layers = append_leaf(before, hashes[Len(hashes)]).layers]

\* C16: queries are pure reads.  compute_root, get_peaks, get_node, get_level,
\* top_level, generate_proof and verify_proof leave every level unchanged, so
\* for a fixed sequence of appended leaves compute_root() returns the same
\* digest whatever queries were interleaved between the appends.
C16_QueriesArePureReads ==
    (max_height >= 1 /\ ~panicked) =>
        /\ layers = Replay(supplied).layers
        /\ compute_root(Self) = compute_root(Replay(supplied))
        /\ answer.op = "compute_root" => answer.ret = compute_root(Replay(supplied))

\* a proof asked for after three appends, and the levels still those of the
\* three appends
C16_Witness ==
    /\ ~panicked /\ Len(supplied) = 3
    /\ answer.op = "generate_proof" /\ answer.index = 0 /\ answer.ret.some
    /\ layers = Replay(supplied).layers
    /\ LevelLen(0) = 3 /\ LevelLen(1) = 1

\* C17: levels are append-only.  Across every append the previous contents of
\* each level are a prefix of its new contents and each level grows by at most
\* one entry.
C17_LevelsAppendOnly ==
    [][\A l \in 1..max_height :
           /\ Len(layers'[l]) >= Len(layers[l])
           /\ Len(layers'[l]) <= Len(layers[l]) + 1
           /\ SubSeq(layers'[l], 1, Len(layers[l])) = layers[l]]_vars

\* the fourth append has grown each of three levels by one entry
C17_Witness ==
    /\ ~panicked /\ max_height = 3 /\ Len(supplied) = 4
    /\ LevelLen(0) = 4 /\ LevelLen(1) = 2 /\ LevelLen(2) = 1
    /\ Level(1)[1] = Combine(supplied[1], supplied[2])

\* C18: in every reachable state the length of level 0 is the number of
\* append_leaf / append_data calls made so far, and entry k of level 0 is the
\* digest supplied by the (k+1)-th append.  (An accumulator with a level 0.)
C18_LevelZeroIsSupplied ==
    max_height >= 1 =>
        /\ LevelLen(0) = Len(supplied)
        /\ \A k \in 0..(Len(supplied) - 1) : Level(0)[k + 1] = supplied[k + 1]

\* the same digest supplied twice in a row is stored twice
C18_Witness ==
    /\ max_height >= 2 /\ Len(supplied) = 3
    /\ supplied[2] = supplied[1]
    /\ Level(0) = supplied

\* C19: top_level() returns the absent value iff no leaf has been appended;
\* otherwise, within capacity, it returns floor(log2(leaf count)), which is the
\* highest level index that holds at least one node.
C19_TopLevel ==
    (max_height >= 1 /\ ~panicked) =>
        /\ top_level(Self) = None <=> Len(supplied) = 0
        /\ LeafCount >= 1 =>
               \E t \in Levels :
                   /\ top_level(Self) = Some(t)
                   /\ Pow2(t) <= LeafCount /\ LeafCount < Pow2(t + 1)
                   /\ LevelLen(t) >= 1
                   /\ \A l \in Levels : l > t => LevelLen(l) = 0

\* five leaves: the top level is 2
C19_Witness ==
    /\ ~panicked /\ LeafCount = 5
    /\ top_level(Self) = Some(2)
    /\ LevelLen(2) = 1

\* C20: verify_proof called with an empty peaks sequence never returns a
\* boolean: it fails on the first-element access, whatever the other
\* arguments are.
C20_EmptyPeaksPanics ==
    (call.made /\ call.peaks = <<>>) => (call.panic /\ panicked)

\* no peaks, and a root, leaf, proof and index that belong to no honest call
C20_Witness ==
    /\ call.made /\ call.peaks = <<>> /\ call.tamper = "all"
    /\ call.leaf_index = -1
    /\ call.panic /\ panicked

----------------------------------------------------------------------------
(* Properties of the cascade and of the proof's content (specification Spec) *)

\* the number of trailing zero bits of n > 0
RECURSIVE TrailingZeros(_)
TrailingZeros(n) == IF n % 2 = 1 THEN 0 ELSE 1 + TrailingZeros(n \div 2)

\* C21: carry depth.  The append that brings the leaf count to n
\* (n <= 2^max_height - 1) adds exactly one entry to each of levels 0..t, where
\* t is the number of trailing zero bits of n, and nothing to any level above
\* t; the cascade stops at the first level whose length is odd or less than 2.
C21_CarryDepth ==
    [][(max_height >= 1 /\ LeafCount' = LeafCount + 1 /\ LeafCount' <= Capacity) =>
           LET t == TrailingZeros(LeafCount')
           IN  /\ \A l \in Levels :
                      Len(layers'[l + 1]) = Len(layers[l + 1]) + (IF l <= t THEN 1 ELSE 0)
               /\ \A l \in Levels : l < t => pair_complete(Len(layers'[l + 1]))
               /\ ~pair_complete(Len(layers'[t + 1]))]_vars

\* the fourth append (two trailing zero bits) has carried into levels 1 and 2
C21_Witness ==
    /\ ~panicked /\ max_height = 3 /\ LeafCount = 4 /\ TrailingZeros(LeafCount) = 2
    /\ LevelLen(1) = 2 /\ LevelLen(2) = 1
    /\ ~pair_complete(LevelLen(2))

\* C22: parent-child invariant.  In every reachable state, for every level k
\* with k + 1 < max_height and every j < len(level k+1), level[k+1][j] equals
\* combine(level[k][2j], level[k][2j+1]), the lower-index child first.
C22_ParentChild ==
    \A k \in Levels :
        k + 1 < max_height =>
            \A j \in 0..(LevelLen(k + 1) - 1) :
                /\ 2 * j + 1 < LevelLen(k)
                /\ Level(k + 1)[j + 1] = Combine(Level(k)[2 * j + 1], Level(k)[2 * j + 2])

\* seven leaves: the node above leaves 4 and 5, and the node above the first
\* two nodes of level 1
C22_Witness ==
    /\ ~panicked /\ max_height = 3 /\ LeafCount = 7
    /\ Level(1)[3] = Combine(Level(0)[5], Level(0)[6])
    /\ Level(2)[1] = Combine(Level(1)[1], Level(1)[2])
    /\ Level(1)[3] # Combine(Level(0)[6], Level(0)[5])
Highest(S) == CHOOSE x \in S : \A y \in S : y <= x

\* the level of the peak whose subtree holds leaf i < LeafCount: the highest
\* bit in which i and the leaf count differ
PeakLevel(i) == Highest({ b \in Levels : Bit(LeafCount, b) # Bit(i, b) })

\* x XOR 1
XorOne(x) == IF x % 2 = 0 THEN x + 1 ELSE x - 1

\* C23: proof content.  In every state within capacity and for every leaf index
\* i below the leaf count, generate_proof(i) has length h, the level of the peak
\* whose subtree contains leaf i; its k-th entry (k = 0..h-1) is the node of
\* level k at index floor(i / 2^k) XOR 1; and walking the proof from the leaf
\* yields the node level[h][floor(i / 2^h)], the last entry of an odd-length
\* level.
C23_ProofContent ==
    WithinCapacity =>
        \A i \in 0..(LeafCount - 1) :
            LET proof == generate_proof(Self, i)
                h     == PeakLevel(i)
            IN  /\ proof.some
                /\ Len(proof.val) = h
                /\ \A k \in 0..(h - 1) :
                       /\ XorOne(i \div Pow2(k)) < LevelLen(k)
                       /\ proof.val[k + 1] = Level(k)[XorOne(i \div Pow2(k)) + 1]
                /\ LevelLen(h) % 2 = 1
                /\ i \div Pow2(h) = LevelLen(h) - 1
                /\ WalkedAfter(Level(0)[i + 1], i, proof.val, h) = Level(h)[LevelLen(h)]

\* seven leaves: leaf 2 lies under the peak of level 2 and is proved by leaf 3
\* and the first node of level 1; leaf 6 is itself the peak of level 0
C23_Witness ==
    /\ WithinCapacity /\ LeafCount = 7
    /\ PeakLevel(2) = 2 /\ PeakLevel(5) = 1 /\ PeakLevel(6) = 0
    /\ generate_proof(Self, 2) = Some(<<Level(0)[4], Level(1)[1]>>)
    /\ generate_proof(Self, 5) = Some(<<Level(0)[5]>>)
    /\ WalkedAfter(Level(0)[3], 2, generate_proof(Self, 2).val, 2) = Level(2)[1]

\* C26: in every state within capacity and for every leaf index below the leaf
\* count, generate_proof never reads outside a level: at each level visited the
\* current index is below that level's length, the sibling index is below that
\* level's length, and the loop breaks at a peak before running past level
\* max_height - 1.
C26_ProofReadsInBounds ==
    WithinCapacity =>
        \A i \in 0..(LeafCount - 1) :
            LET proof == generate_proof(Self, i)
                h     == Len(proof.val)
            IN  /\ ~proof.panic /\ proof.some
                /\ h < max_height
                /\ \A k \in 0..h : LevelLen(k) >= 1 /\ i \div Pow2(k) < LevelLen(k)
                /\ \A k \in 0..(h - 1) :
                       /\ ~at_peak(i \div Pow2(k), LevelLen(k))
                       /\ sibling_index(i \div Pow2(k)) >= 0
                       /\ sibling_index(i \div Pow2(k)) < LevelLen(k)
                /\ at_peak(i \div Pow2(h), LevelLen(h))

\* a full accumulator: the walk from leaf 0 reads a sibling at every level
\* below the top and breaks at the top level, max_height - 1
C26_Witness ==
    /\ WithinCapacity /\ max_height = 3 /\ LeafCount = Capacity
    /\ Len(generate_proof(Self, 0).val) = max_height - 1
    /\ at_peak(0, LevelLen(max_height - 1))
    /\ sibling_index(0) < LevelLen(1)

\* the number of set bits of n
RECURSIVE PopCount(_)
PopCount(n) == IF n = 0 THEN 0 ELSE (n % 2) + PopCount(n \div 2)

\* C27: in every state reached by 1 to 2^max_height - 1 appends at least one
\* level among 0..max_height-1 has odd length, so compute_root's access to the
\* first collected peak never fails and get_peaks() is non-empty; the number of
\* peaks equals the number of set bits of the leaf count.
C27_PeaksNonEmpty ==
    WithinCapacity =>
        /\ \E l \in Levels : LevelLen(l) % 2 = 1
        /\ root_peaks_from(Self, 0) # <<>>
        /\ ~compute_root(Self).panic /\ compute_root(Self).some
        /\ get_peaks(Self).some /\ get_peaks(Self).val # <<>>
        /\ Len(get_peaks(Self).val) = PopCount(LeafCount)

\* four leaves: the only odd level is the top one; seven leaves would give three
C27_Witness ==
    /\ WithinCapacity /\ max_height = 3 /\ LeafCount = 4
    /\ LevelLen(0) % 2 = 0 /\ LevelLen(1) % 2 = 0 /\ LevelLen(2) % 2 = 1
    /\ Len(get_peaks(Self).val) = 1 /\ PopCount(LeafCount) = 1
    /\ compute_root(Self).some
----------------------------------------------------------------------------
(* Properties of verify_proof's inputs (specification SpecVerify) *)

\* accumulators of the same hash algorithm in other states: the one of every
\* prefix of the appends made, and a fresh one of every height
OtherAccumulators ==
    { Replay(SubSeq(supplied, 1, k)) : k \in 0..Len(supplied) }
        \cup { new(h, hash_type) : h \in Heights }

Stored(hash) == \E l \in 1..Len(layers) : \E k \in 1..Len(layers[l]) : layers[l][k] = hash

\* C24: verify_proof does not consult the accumulator's levels: for the same
\* hash algorithm and the same arguments it returns the same result in any two
\* accumulator states, so it returns true for a leaf that was never appended
\* whenever the caller-supplied peaks contain the walked hash and root equals
\* the fold of those peaks.
C24_VerifyIgnoresLevels ==
    call.made =>
        /\ \A other \in OtherAccumulators :
               verify_proof(other, call.root, call.peaks, call.proof, call.leaf,
                            call.leaf_index)
                   = [panic |-> call.panic, ret |-> call.ret]
        /\ (/\ ~Stored(call.leaf)
            /\ Len(call.peaks) > 0
            /\ InPeaks(call)
            /\ LeftFold(call.peaks) = call.root) => call.ret

\* a digest stored nowhere, a one-entry proof and peaks made up around it:
\* accepted
C24_Witness ==
    /\ call.made /\ call.tamper = "forged" /\ LeafCount = 3
    /\ ~Stored(call.leaf)
    /\ Len(call.proof) = 1 /\ Len(call.peaks) = 2
    /\ call.ret /\ ~call.panic

\* C25: verify_proof rejects every negative leaf_index: for any leaf_index < 0
\* (signed 32-bit) it does not return true, whatever root, peaks, proof and
\* leaf are supplied.  (Stated for a proof of at least one entry, where the
\* index is read.)
C25_NegativeIndexRejected ==
    (call.made /\ call.leaf_index < 0 /\ Len(call.proof) >= 1) => ~call.ret

====
